---- MODULE Spec2Model ----
(***************************************************************************)
(* BoltzmannEqs: the evolution driver (pyCode/boltzSolver.py) and the      *)
(* species model (pyCode/component.py) as a state machine.                 *)
(*                                                                         *)
(* Numbers.  The driver's quantities span many decades, so the model keeps *)
(* them as integer natural logarithms ("levels"): a temperature T, an      *)
(* entropy S, a number density n, an energy density rho and a ratio rho/n  *)
(* are stored as ln of their value, a product is a sum of levels and a     *)
(* quotient a difference.  The integration variable x = ln(R/R0) already   *)
(* is a logarithm.  A stored density is a tagged value: a finite level,    *)
(* zero (0.), infinity, or NaN (numpy.nan).  None is the temperature 0,    *)
(* which Python also reads as false; every real temperature level is >= 1. *)
(***************************************************************************)
EXTENDS Integers, Sequences, FiniteSets, TLC

\* ------------------------------------------------------------------ bounds
\* Number of species handed to BoltzSolution (len(compList)).
NComp == 2
\* Largest npoints a caller passes to EvolveTo.
NPoints == 3
\* Reheat temperature T0 (level) handed to BoltzSolution.
TRH == 8
\* Target temperature TF (level) handed to EvolveTo; TF < TRH.
TargetT == 2

Comps == 1..NComp
\* Guard on the segment counter, above the largest count the code can reach.
MaxSegs == 2*NComp + 2

\* ------------------------------------------------------------ tagged values
Fin(l) == [k |-> "fin", l |-> l]
Zero == [k |-> "zero", l |-> 0]
Inf == [k |-> "inf", l |-> 0]
NaN == [k |-> "nan", l |-> 0]

\* IEEE product of two values given as levels.
LMul(a, b) ==
  IF a.k = "nan" \/ b.k = "nan" THEN NaN
  ELSE IF (a.k = "zero" /\ b.k = "inf") \/ (a.k = "inf" /\ b.k = "zero") THEN NaN
  ELSE IF a.k = "zero" \/ b.k = "zero" THEN Zero
  ELSE IF a.k = "inf" \/ b.k = "inf" THEN Inf
  ELSE Fin(a.l + b.l)

\* IEEE quotient a/b of two non-negative values given as levels.
LDiv(a, b) ==
  IF a.k = "nan" \/ b.k = "nan" THEN NaN
  ELSE IF a.k = "zero" /\ b.k = "zero" THEN NaN
  ELSE IF a.k = "inf" /\ b.k = "inf" THEN NaN
  ELSE IF b.k = "zero" THEN Inf
  ELSE IF b.k = "inf" THEN Zero
  ELSE IF a.k = "zero" THEN Zero
  ELSE IF a.k = "inf" THEN Inf
  ELSE Fin(a.l - b.l)

\* v > 1 in floating point (false for NaN).
GreaterThanOne(v) == v.k = "inf" \/ (v.k = "fin" /\ v.l > 0)

\* v < 2 in floating point (false for NaN): levels are integers, e^0 < 2 <= e^1.
LessThanTwo(v) == v.k = "zero" \/ (v.k = "fin" /\ v.l <= 0)

Last(s) == s[Len(s)]

\* exp(x) for x = 0, 1, 2, ...: a strictly increasing integer stand-in (2^x).
RECURSIVE Exp(_)
Exp(x) == IF x <= 0 THEN 1 ELSE 2 * Exp(x - 1)

\* ------------------------------------------------------- species definitions
\* The species a caller can define (Component.__init__ arguments and, for
\* "preset", densities assigned to comp.n / comp.rho before the solver is built).
\*   strong : thermal, large annihilation cross section
\*   feeble : thermal, sigmav = 0 (the default)
\*   preset : thermal, caller-assigned densities away from equilibrium at T0
\*   CO     : coherent-oscillation field
Kinds ==
  [ strong |-> [Type |-> "thermal", mass |-> 6,  sigmav |-> Fin(-4),
                preset |-> FALSE, width |-> 0],
    feeble |-> [Type |-> "thermal", mass |-> 6,  sigmav |-> Zero,
                preset |-> FALSE, width |-> 0],
    preset |-> [Type |-> "thermal", mass |-> 6,  sigmav |-> Fin(-4),
                preset |-> TRUE, width |-> 0],
    CO     |-> [Type |-> "CO",      mass |-> 10, sigmav |-> Zero,
                preset |-> FALSE, width |-> 0] ]

KindNames == {"strong", "feeble", "preset", "CO"}

\* Temperatures a caller hands to Component.getInitialCond.
ICTemps == {TRH, TRH - 5}

VARIABLES
  kind,        \* species i's definition (a name in Kinds), fixed
  components,  \* per species: active, Tdecay, Tosc, Tdecouple, thermalEQ, n, rho
  events,      \* self.events: the list of event functions, each with the
               \* species it is bound to (icomp)
  x, T, S, R,  \* the driver's trajectory arrays
  y0, norm, normS,   \* set by setInitialCond
  frame,       \* the running EvolveTo call: x0, xf, npoints, atol, rtol
  r,           \* the integrator's last result, and the segment it ended
  phase,       \* "comps", "ready", "integrating", "returning", "done"
  depth,       \* number of EvolveTo calls on the stack
  ret,         \* value returned by the EvolveTo call that returned last
  solved,      \* what the caller of the outermost EvolveTo received
  segs,        \* integration segments started (solve_ivp calls)
  failed,      \* history: some segment ended with status < 0
  evFired,     \* history: the last firing: event index, time, species, temperature
  rhsIn,       \* a call rhs(x, y): the solver fields it reads, x and y
  rhsOut,      \* the call's input as it was handed over, and the dy returned
  eqs,         \* a BoltzEqs problem under its integrator: species, solver.sw,
               \* solver.y, solver.t and how the last handle_event call ended
  evOut,       \* the last evaluation of an event function: which, and its value
  dyOut,       \* floating-point values inside a call of rhs, and the dy returned
  made,        \* a call of the Component constructor or of a pairwise accessor
  post         \* post-processing of a solved trajectory: streams, files, output

vars == <<kind, components, events, x, T, S, R, y0, norm, normS, frame, r,
          phase, depth, ret, solved, segs, failed, evFired, rhsIn, rhsOut, eqs,
          evOut, dyOut, made, post>>

\* What the BoltzSolution driver does not touch.
sideVars == <<rhsIn, rhsOut, eqs, evOut, dyOut, made, post>>

solverVars == <<events, x, T, S, R, y0, norm, normS, frame, r, depth, ret,
                solved, segs, failed, evFired>>

\* ------------------------------------------------------------ species model
mass(i) == Kinds[kind[i]].mass

\* Component.width
width(i) == Kinds[kind[i]].width

\* Component.getSIGV
getSIGV(i, Temp) == Kinds[kind[i]].sigmav

\* Component.nEQ: 0 for a non-thermal species, else the equilibrium density
\* (T^3 when relativistic, Boltzmann suppressed below the mass).
nEQ(i, Temp) ==
  IF Kinds[kind[i]].Type = "CO" THEN Zero
  ELSE IF Temp >= mass(i) THEN Fin(3 * Temp)
  ELSE Fin(4 * Temp - mass(i))

\* Component.rEQ: equilibrium rho/n (about T when relativistic, about the mass below).
rEQ(i, Temp) == IF Temp > mass(i) THEN Fin(Temp) ELSE Fin(mass(i))

\* Radiation-dominated Hubble rate sqrt(8 pi^3 g/90) T^2/MP.
HRad(Temp) == Fin(2 * Temp)

\* Component.isOscillating
isOscillating(i, Temp) ==
  Kinds[kind[i]].Type = "CO" /\ components[i].active /\ 2 * Temp < mass(i)

\* Component.getInitialCond(T) with the default components=[]: the fields of
\* species i after the call.
getInitialCond(i, Temp) ==
  LET c == components[i]
      totalProdRate == LDiv(LMul(getSIGV(i, Temp), nEQ(i, Temp)), HRad(Temp))
  IN  IF Kinds[kind[i]].Type = "thermal"
      THEN IF LessThanTwo(totalProdRate)
           THEN [c EXCEPT !.Tdecouple = Temp]
           ELSE c
      ELSE IF isOscillating(i, Temp)
           THEN [c EXCEPT !.Tdecouple = Temp, !.Tosc = Temp]
           ELSE [c EXCEPT !.Tdecouple = Temp, !.active = FALSE]

\* ------------------------------------------------------------------- Init
\* The state after Component.__init__ for every species of compList.
NewComponent(k) ==
  [ active |-> TRUE, Tdecay |-> 0, Tosc |-> 0, Tdecouple |-> 0,
    thermalEQ |-> FALSE,
    n   |-> IF Kinds[k].preset THEN << Fin(3 * TRH - 2) >> ELSE << >>,
    rho |-> IF Kinds[k].preset THEN << Fin(4 * TRH - 2) >> ELSE << >> ]

NoResult == [seg |-> 0, status |-> 0, t |-> << >>, tend |-> 0, fired |-> {}]
NoFiring == [k |-> 0 - 1, at |-> 0, comp |-> 0, temp |-> 0, x0 |-> 0]
NoCall == [called |-> FALSE]
NoProblem == [built |-> FALSE]
NoPost == [ops |-> << >>, stdout |-> "open", out |-> << >>, file |-> << >>,
           dataDict |-> << >>, raised |-> "nothing"]

Init ==
  /\ kind \in [Comps -> KindNames]
  /\ components = [i \in Comps |-> NewComponent(kind[i])]
  /\ events = << >>
  /\ x = << >> /\ T = << >> /\ S = << >> /\ R = << >>
  /\ y0 = << >> /\ norm = << >> /\ normS = 0
  /\ frame = [x0 |-> 0, xf |-> 0, TF |-> 0, npoints |-> 0, atol |-> 0, rtol |-> 0]
  /\ r = NoResult
  /\ phase = "comps"
  /\ depth = 0
  /\ ret = "none"
  /\ solved = "none"
  /\ segs = 0
  /\ failed = FALSE
  /\ evFired = NoFiring
  /\ rhsIn = NoCall
  /\ rhsOut = NoCall
  /\ eqs = NoProblem
  /\ evOut = NoCall
  /\ dyOut = NoCall
  /\ made = NoCall
  /\ post = NoPost

\* ------------------------------------------------- thermodynamic tables
\* gSTARS(T): the entropy degrees of freedom, a table consumed as a function of
\* T; the model takes it constant (level 0).
gSTARS(Temp) == 0

\* getTemperature(x, NS, normS): T with (2 pi^2/45) gSTARS(T) T^3 = normS exp(NS - 3x).
getTemperature(xx, NS, nS) == (nS + NS - 3 * xx - gSTARS(0)) \div 3

\* A variant of hstack that keeps only the new block.
hstackReplace(a, b) == b

\* --------------------------------------------------------------- the driver
\* numpy.hstack of two arrays.
hstack(a, b) == a \o b

\* numpy.linspace(a, b, n), each point rounded down to the unit of x.
linspace(a, b, n) ==
  IF n = 0 THEN << >>
  ELSE IF n = 1 THEN << a >>
  ELSE [k \in 1..n |-> a + ((k - 1) * (b - a)) \div (n - 1)]

\* The test of __init__ lines 88-93: n differs from neq by more than 1e-4 of neq.
startsDecoupled(nlast, neq) ==
  /\ nlast # neq
  /\ nlast.k # "nan" /\ neq.k # "nan"
  /\ ~(nlast.k = "zero" /\ neq.k = "zero")
  /\ neq.k # "inf"

\* BoltzSolution.__init__, lines 70-93: species i after construction at T0.
initComponent(i, T0) ==
  LET c == components[i]
      neq == nEQ(i, T0)
      thermalEQ == LDiv(LMul(neq, getSIGV(i, T0)), HRad(T0))
      n0 == IF GreaterThanOne(thermalEQ) THEN neq ELSE LMul(Fin(0 - 46), neq)
      c1 == IF Len(c.n) = 0
            THEN [c EXCEPT !.active = TRUE,
                           !.n = << n0 >>,
                           !.rho = << LMul(n0, rEQ(i, T0)) >>,
                           !.Tdecouple = IF GreaterThanOne(thermalEQ) THEN @ ELSE T0]
            ELSE [c EXCEPT !.active = TRUE,
                           !.n = << Last(c.n) >>,
                           !.rho = << Last(c.rho) >>]
  IN  [c1 EXCEPT !.thermalEQ = ~startsDecoupled(Last(c1.n), neq)]

\* BoltzSolution.setInitialCond on the arrays cs (species) and Ss (entropy).
setInitialCond(cs, Ss) ==
  [ y0 |-> [Ni |-> [i \in Comps |-> 0],
            Ri |-> [i \in Comps |-> LDiv(Last(cs[i].rho), Last(cs[i].n))],
            NS |-> 0],
    norm |-> [i \in Comps |-> Last(cs[i].n)],
    normS |-> Last(Ss) ]

\* EvolveTo's default tolerances atol=1e-6 and rtol=1e-3 (line 134), as
\* powers of ten, and the tolerances a caller passes.
DefaultTol == [atol |-> 0 - 6, rtol |-> 0 - 3]
Tolerances == {DefaultTol, [atol |-> 0 - 9, rtol |-> 0 - 6]}

\* EvolveTo lines 147-151: the span and the output grid of a call, and the
\* tolerances it hands to solve_ivp (line 157).
newFrame(xs, Ts, TFarg, npts, tol) ==
  [ x0 |-> Last(xs),
    xf |-> (Ts[1] - TFarg) + (gSTARS(Ts[1]) - gSTARS(TFarg)) \div 3,
    TF |-> TFarg,
    npoints |-> npts,
    atol |-> tol.atol,
    rtol |-> tol.rtol ]

tvals == linspace(frame.x0, frame.xf, frame.npoints)

\* The integrator's solution of the running segment at time t (r.y): species
\* dilute as R^-3 and redshift; the species of Kinds have zero width, so
\* dNS/dx = 0 (rhs line 272) and the entropy variable stays at NS0 = 0.
solNi(i, t) == 0 - 3 * (t - frame.x0)
solRi(i, t) == LMul(y0.Ri[i], Fin(0 - (t - frame.x0)))
solNS(t) == 0

\* r.t: the points of t_eval the integration reached (t_eval[k] <= tend).
reached(tend) == SelectSeq(tvals, LAMBDA t : t <= tend)

\* A variant of newDensities that stores no rows for an inactive species.
newDensitiesNoFiller(i, res) ==
  LET c == components[i]
      Tv(k) == getTemperature(res.t[k], solNS(res.t[k]), normS)
      len == IF c.active THEN Len(res.t) ELSE 0
      nAt(k) == IF c.Tdecouple = 0 THEN nEQ(i, Tv(k))
                ELSE LMul(Fin(solNi(i, res.t[k])), norm[i])
      rhoAt(k) == IF c.Tdecouple = 0 THEN LMul(nAt(k), rEQ(i, Tv(k)))
                  ELSE LMul(nAt(k), solRi(i, res.t[k]))
  IN  [ n |-> [k \in 1..len |-> nAt(k)],
        rho |-> [k \in 1..len |-> rhoAt(k)] ]

\* BoltzSolution.updateSolution, lines 445-458: the n and rho rows of species i.
newDensities(i, res) ==
  LET c == components[i]
      Tv(k) == getTemperature(res.t[k], solNS(res.t[k]), normS)
      nAt(k) == IF ~c.active THEN NaN
                ELSE IF c.Tdecouple = 0 THEN nEQ(i, Tv(k))
                ELSE LMul(Fin(solNi(i, res.t[k])), norm[i])
      rhoAt(k) == IF ~c.active THEN NaN
                  ELSE IF c.Tdecouple = 0 THEN LMul(nAt(k), rEQ(i, Tv(k)))
                  ELSE LMul(nAt(k), solRi(i, res.t[k]))
  IN  [ n |-> [k \in 1..Len(res.t) |-> nAt(k)],
        rho |-> [k \in 1..Len(res.t) |-> rhoAt(k)] ]

\* BoltzSolution.updateSolution: species i with its rows appended.
updateComponent(i, res) ==
  [components[i] EXCEPT !.n = hstack(@, newDensities(i, res).n),
                        !.rho = hstack(@, newDensities(i, res).rho)]

\* A variant of the event loop that records Tdecouple and leaves the
\* thermalEQ flag set.
handleEventsKeepFlag(i, c, fired, Tlast) ==
  LET c1 == IF 2 * (i - 1) \in fired
            THEN [c EXCEPT !.Tdecay = Tlast, !.active = FALSE]
            ELSE c
  IN  IF 2 * (i - 1) + 1 \in fired
      THEN [c1 EXCEPT !.Tdecouple = Tlast]
      ELSE c1

\* A variant of the event loop that records Tdecay and leaves the species
\* active.
handleEventsKeepActive(i, c, fired, Tlast) ==
  LET c1 == IF 2 * (i - 1) \in fired
            THEN [c EXCEPT !.Tdecay = Tlast]
            ELSE c
  IN  IF 2 * (i - 1) + 1 \in fired
      THEN [c1 EXCEPT !.Tdecouple = Tlast, !.thermalEQ = FALSE]
      ELSE c1

\* EvolveTo lines 172-183: species c after the firings `fired` (event indices
\* 2(i-1) for decay completion, 2(i-1)+1 for equilibrium departure of species i).
handleEvents(i, c, fired, Tlast) ==
  LET c1 == IF 2 * (i - 1) \in fired
            THEN [c EXCEPT !.Tdecay = Tlast, !.active = FALSE]
            ELSE c
  IN  IF 2 * (i - 1) + 1 \in fired
      THEN [c1 EXCEPT !.Tdecouple = Tlast, !.thermalEQ = FALSE]
      ELSE c1

\* A variant of the event list with one placeholder for a species that is
\* inactive at construction.
RECURSIVE appendEventsOnePlaceholder(_, _)
appendEventsOnePlaceholder(cs, i) ==
  IF i > NComp THEN << >>
  ELSE (IF ~cs[i].active
        THEN << [f |-> "placeholder", icomp |-> 0] >>
        ELSE << [f |-> "fSuppressed", icomp |-> i],
                [f |-> "fEquilibrium", icomp |-> i] >>)
       \o appendEventsOnePlaceholder(cs, i + 1)

\* BoltzSolution.__init__ lines 34-49: the entries appended to self.events
\* for species i and those after it.
RECURSIVE appendEvents(_, _)
appendEvents(cs, i) ==
  IF i > NComp THEN << >>
  ELSE (IF ~cs[i].active
        THEN << [f |-> "placeholder", icomp |-> 0],
                [f |-> "placeholder", icomp |-> 0] >>
        ELSE << [f |-> "fSuppressed", icomp |-> i],
                [f |-> "fEquilibrium", icomp |-> i] >>)
       \o appendEvents(cs, i + 1)

\* Whether event function k can change sign during a segment: fSuppressed
\* returns the constant 1 for an inactive species, checkThermalEQ the constant
\* 1.0 for a species that is inactive or not flagged thermalEQ, and the
\* placeholders the constant -1.
canFire(k) ==
  LET i == k \div 2 + 1
  IN  /\ k < Len(events)
      /\ events[k + 1].f # "placeholder"
      /\ components[i].active
      /\ (k % 2 = 1 => components[i].thermalEQ)

EventIds == 0..(2 * NComp - 1)

\* An EvolveTo call returns v to its caller.
Return(v) ==
  /\ ret' = v
  /\ depth' = depth - 1
  /\ IF depth = 1
     THEN phase' = "done" /\ solved' = v
     ELSE phase' = "returning" /\ UNCHANGED solved

\* An EvolveTo call starts: setInitialCond and the grid, then solve_ivp runs.
Enter(cs, xs, Ts, Ss, TFarg, npts, tol) ==
  /\ y0' = setInitialCond(cs, Ss).y0
  /\ norm' = setInitialCond(cs, Ss).norm
  /\ normS' = setInitialCond(cs, Ss).normS
  /\ frame' = newFrame(xs, Ts, TFarg, npts, tol)
  /\ depth' = depth + 1
  /\ segs' = segs + 1
  /\ phase' = "integrating"

\* --------------------------------------------------------------- actions
\* A caller runs comp.getInitialCond(T) on a species before building the solver.
GetInitialCond(i, Temp) ==
  /\ phase = "comps"
  /\ components' = [components EXCEPT ![i] = getInitialCond(i, Temp)]
  /\ UNCHANGED <<kind, sideVars, solverVars, phase>>

\* BoltzSolution(compList, T0).
Construct(T0) ==
  /\ phase = "comps"
  /\ events' = appendEvents(components, 1)
  /\ S' = << gSTARS(T0) + 3 * T0 >>
  /\ T' = << T0 >>
  /\ x' = << 0 >>
  /\ R' = << 1 >>
  /\ components' = [i \in Comps |-> initComponent(i, T0)]
  /\ phase' = "ready"
  /\ UNCHANGED <<kind, sideVars, y0, norm, normS, frame, r, depth, ret, solved, segs,
                 failed, evFired>>

\* solution.EvolveTo(TF, npoints, atol=..., rtol=...): the outermost call, up
\* to solve_ivp.
EvolveTo(TFarg, npts, tol) ==
  /\ phase = "ready"
  /\ Enter(components, x, T, S, TFarg, npts, tol)
  /\ UNCHANGED <<kind, sideVars, components, events, x, T, S, R, r, ret, solved,
                 failed, evFired>>

\* A variant of the failure branch that stores the segment's first point
\* before it returns.
SegmentFailsStoring ==
  /\ phase = "integrating"
  /\ r' = [seg |-> segs, status |-> 0 - 1, t |-> << >>, tend |-> frame.x0,
           fired |-> {}]
  /\ failed' = TRUE
  /\ Return("False")
  /\ x' = hstack(x, << frame.x0 >>)
  /\ UNCHANGED <<kind, sideVars, components, events, T, S, R, y0, norm, normS, frame,
                 segs, evFired>>

\* solve_ivp returns status < 0: lines 161-166.
SegmentFails ==
  /\ phase = "integrating"
  /\ r' = [seg |-> segs, status |-> 0 - 1, t |-> << >>, tend |-> frame.x0,
           fired |-> {}]
  /\ failed' = TRUE
  /\ Return("False")
  /\ UNCHANGED <<kind, sideVars, components, events, x, T, S, R, y0, norm, normS, frame,
                 segs, evFired>>

\* solve_ivp returned res with status >= 0: lines 169-193.
Finish(res) ==
  LET xN == hstack(x, res.t)
      RN == hstack(R, [k \in 1..Len(res.t) |-> Exp(res.t[k])])
      SN == hstack(S, [k \in 1..Len(res.t) |-> normS + solNS(res.t[k])])
      TN == hstack(T, [k \in 1..Len(res.t) |->
                         getTemperature(res.t[k], solNS(res.t[k]), normS)])
      cs == [i \in Comps |->
               handleEvents(i, updateComponent(i, res), res.fired, Last(TN))]
      continueEvolution == res.fired # {}
  IN  /\ r' = res
      /\ x' = xN /\ R' = RN /\ S' = SN /\ T' = TN
      /\ components' = cs
      /\ evFired' = IF res.fired = {} THEN evFired
                    ELSE LET k == CHOOSE e \in res.fired : TRUE
                         IN  [k |-> k, at |-> res.tend, comp |-> k \div 2 + 1,
                              temp |-> getTemperature(res.tend,
                                          solNS(res.tend), normS),
                              x0 |-> frame.x0]
      /\ IF continueEvolution /\ \E i \in Comps : cs[i].active
         THEN /\ segs < MaxSegs
              /\ Enter(cs, xN, TN, SN, frame.TF, frame.npoints - Len(res.t),
                       DefaultTol)
              /\ UNCHANGED <<ret, solved>>
         ELSE /\ Return("True")
              /\ UNCHANGED <<y0, norm, normS, frame, segs>>
      /\ UNCHANGED <<kind, sideVars, events, failed>>

\* The integration reaches xf with no event (status 0).
SegmentReachesEnd ==
  /\ phase = "integrating"
  /\ Finish([seg |-> segs, status |-> 0, t |-> reached(frame.xf),
             tend |-> frame.xf, fired |-> {}])

\* A terminal event fires at time tev (status 1): event k changed sign first.
SegmentEvent(k, tev) ==
  /\ phase = "integrating"
  /\ canFire(k)
  /\ frame.x0 < tev /\ tev <= frame.xf
  /\ Finish([seg |-> segs, status |-> 1, t |-> reached(tev),
             tend |-> tev, fired |-> {k}])

\* Line 186 returns into the calling EvolveTo, which goes on to line 193.
ReturnFromRestart ==
  /\ phase = "returning"
  /\ Return("True")
  /\ UNCHANGED <<kind, sideVars, components, events, x, T, S, R, y0, norm, normS, frame,
                 r, segs, failed, evFired>>

driverVars == <<kind, components, events, x, T, S, R, y0, norm, normS, frame, r,
                phase, depth, ret, solved, segs, failed, evFired>>

\* --------------------------------------------------------- post-processing
\* printSummary, printData and the reader getDataFrom, called on the solver
\* once the outermost EvolveTo has returned.  A file is the sequence of its
\* lines; a number written with '%1.4E' is a token, which eval reads back.

\* Post-processing calls made on one solution.
MaxPost == 2

\* A variant of argmin that returns the last index of the minimum.
argminLast(Ts, Tlast) ==
  LET dist(k) == IF Ts[k] < Tlast THEN Tlast - Ts[k] ELSE Ts[k] - Tlast
  IN  CHOOSE k \in 1..Len(Ts) :
        /\ \A j \in 1..Len(Ts) : dist(k) <= dist(j)
        /\ \A j \in (k + 1)..Len(Ts) : dist(j) > dist(k)

\* np.abs(T - Tlast).argmin(): the first index of the minimum.
argmin(Ts, Tlast) ==
  LET dist(k) == IF Ts[k] < Tlast THEN Tlast - Ts[k] ELSE Ts[k] - Tlast
  IN  CHOOSE k \in 1..Len(Ts) :
        /\ \A j \in 1..Len(Ts) : dist(k) <= dist(j)
        /\ \A j \in 1..(k - 1) : dist(j) > dist(k)

\* The index printSummary takes the densities of species i from: lines 479-484.
summaryIndex(Ts, c) ==
  argmin(Ts, IF c.Tdecay # 0 /\ c.Tdecay > Last(Ts) THEN c.Tdecay ELSE Last(Ts))

\* printSummary lines 473-503: what is written, the arguments handed to
\* getOmega and getDNeff standing for their values.
summaryText ==
  [ TF |-> Last(T),
    comps |-> [i \in Comps |->
      LET c == components[i]
          idx == summaryIndex(T, c)
      IN  [ Tdecouple |-> c.Tdecouple, Tdecay |-> c.Tdecay,
            tag |-> IF c.Tdecay = 0 THEN "(@TF)" ELSE "(@decay)",
            omega |-> [rho |-> c.rho[idx], n |-> c.n[idx], T |-> T[idx]],
            DNeff |-> [rho |-> Last(c.rho), n |-> Last(c.n), T |-> Last(T)] ]] ]

\* '%1.4E' % v, and eval of the token: NAN and INF are no Python names.
format(v) ==
  IF v = NaN THEN [tok |-> "NAN", v |-> Zero]
  ELSE IF v = Inf THEN [tok |-> "INF", v |-> Zero]
  ELSE [tok |-> "num", v |-> v]

\* printData lines 517-533: the lines appended to the file.
dataLines ==
  LET header == << "x", "T", "R", "S" >>
      values == << x, T, R, S >>
      labels == [k \in 1..(4 + 2 * NComp) |->
                   IF k <= 4 THEN [col |-> header[k], comp |-> 0]
                   ELSE [col |-> IF k % 2 = 1 THEN "n" ELSE "rho",
                         comp |-> (k - 3) \div 2]]
      column(k) == IF k <= 4 THEN [j \in 1..Len(values[k]) |-> Fin(values[k][j])]
                   ELSE IF k % 2 = 1 THEN components[(k - 3) \div 2].n
                   ELSE components[(k - 3) \div 2].rho
  IN  IF \E k \in 1..(4 + 2 * NComp) : Len(column(k)) # Len(x)
      THEN << >>
      ELSE << [kind |-> "rule", cells |-> << >>] >>
           \o << [kind |-> "labels", cells |-> labels] >>
           \o [row \in 1..Len(x) |->
                 [kind |-> "row",
                  cells |-> [k \in 1..(4 + 2 * NComp) |-> format(column(k)[row])]]]
           \o << [kind |-> "rule", cells |-> << >>] >>

\* getDataFrom lines 168-190: the dataDict read from a file; a line of kind
\* "Header" is one that holds the word Header.
getDataFrom(file) ==
  LET marks == {k \in 1..Len(file) : file[k].kind = "Header"}
  IN  IF marks = {} THEN [raised |-> "nothing", dataDict |-> << >>]
      ELSE
        LET m == CHOOSE k \in marks : \A j \in marks : k <= j
            stop == CHOOSE e \in (m + 1)..(Len(file) + 1) :
                      /\ e = Len(file) + 1 \/ file[e].kind = "rule"
                      /\ \A j \in (m + 1)..(e - 1) : file[j].kind # "rule"
            labels == IF m + 1 < stop THEN file[m + 1].cells ELSE << >>
            rows == SelectSeq(SubSeq(file, m + 2, stop - 1),
                              LAMBDA ln : ln.cells # << >>)
        IN  IF \E k \in 1..Len(rows) : \E c \in 1..Len(rows[k].cells) :
                 rows[k].cells[c].tok # "num"
            THEN [raised |-> "NameError", dataDict |-> << >>]
            ELSE [raised |-> "nothing",
                  dataDict |-> [l \in {labels[c] : c \in 1..Len(labels)} |->
                    [k \in 1..Len(rows) |->
                       rows[k].cells[CHOOSE c \in 1..Len(labels) : labels[c] = l].v]]]

\* self.printSummary(outFile): dest is "stdout" (outFile=None) or "path" (a
\* file name).  Line 505 closes the stream written to.
PrintSummary(dest) ==
  /\ phase = "done" /\ Len(post.ops) < MaxPost
  /\ IF dest = "stdout" /\ post.stdout = "closed"
     THEN post' = [post EXCEPT !.ops = Append(@, <<"printSummary", dest>>),
                               !.out = Append(@, [raised |-> "ValueError", text |-> << >>]),
                               !.raised = "ValueError"]
     ELSE post' = [post EXCEPT !.ops = Append(@, <<"printSummary", dest>>),
                               !.out = Append(@, [raised |-> "nothing",
                                                  text |-> summaryText]),
                               !.stdout = IF dest = "stdout" THEN "closed" ELSE @,
                               !.raised = "nothing"]
  /\ UNCHANGED <<driverVars, rhsIn, rhsOut, eqs, evOut, dyOut, made>>

\* self.printData(outFile) with a file name.
PrintData ==
  /\ phase = "done" /\ Len(post.ops) < MaxPost
  /\ post' = [post EXCEPT !.ops = Append(@, <<"printData", "path">>),
                          !.out = Append(@, [raised |-> "nothing", text |-> << >>]),
                          !.file = @ \o dataLines,
                          !.raised = "nothing"]
  /\ UNCHANGED <<driverVars, rhsIn, rhsOut, eqs, evOut, dyOut, made>>

\* getDataFrom(dataFile) on the file printData wrote.
GetDataFrom ==
  /\ phase = "done" /\ Len(post.ops) < MaxPost
  /\ \E k \in 1..Len(post.ops) : post.ops[k][1] = "printData"
  /\ post' = [post EXCEPT !.ops = Append(@, <<"getDataFrom", "path">>),
                          !.out = Append(@, [raised |-> getDataFrom(post.file).raised,
                                             text |-> << >>]),
                          !.dataDict = getDataFrom(post.file).dataDict,
                          !.raised = getDataFrom(post.file).raised]
  /\ UNCHANGED <<driverVars, rhsIn, rhsOut, eqs, evOut, dyOut, made>>

Next ==
  \/ \E i \in Comps, Temp \in ICTemps : GetInitialCond(i, Temp)
  \/ Construct(TRH)
  \/ \E npts \in 1..NPoints, tol \in Tolerances : EvolveTo(TargetT, npts, tol)
  \/ SegmentFails
  \/ SegmentReachesEnd
  \/ \E k \in EventIds, tev \in 1..(TRH - TargetT) : SegmentEvent(k, tev)
  \/ ReturnFromRestart
  \/ \E dest \in {"stdout", "path"} : PrintSummary(dest)
  \/ PrintData
  \/ GetDataFrom

Spec == Init /\ [][Next]_vars

\* ------------------------------------------------------ the vector field
\* BoltzSolution.rhs sums reaction terms, so its model computes with small
\* integers in the vector field's own units; a quotient is the integer
\* quotient.  A call c holds what rhs reads: the solver's fields (active,
\* Tdecouple, norm, normS, each species' width) and the arguments x and
\* y = (Ni, Ri, NS).  Species labels are the indices 1..NComp; label 0 is a
\* Standard-Model particle, which is not in compList.

\* Integer square root.
ISqrt(v) == CHOOSE q \in 0..v : q * q <= v /\ (q + 1) * (q + 1) > v

\* numpy.log of a ratio, in units of ln 2.
RECURSIVE ILog(_)
ILog(q) == IF q <= 1 THEN 0 ELSE 1 + ILog(q \div 2)

RECURSIVE SumOver(_, _)
SumOver(f, D) ==
  IF D = {} THEN 0
  ELSE LET j == CHOOSE e \in D : TRUE IN f[j] + SumOver(f, D \ {j})

\* The decay table of species i (comp.getBRs(T)): a chain, species i decays
\* to species i+1 and a Standard-Model particle.
getBRs(i) ==
  IF i < NComp THEN << [fstateIDs |-> << i + 1, 0 >>, br |-> 1] >> ELSE << >>

\* DecayList.Xfraction: the energy fraction a decay hands to the thermal bath.
getBRX(i) == IF i < NComp THEN 1 ELSE 0

\* fstateIDs.count(label)
count(ids, label) == Cardinality({k \in 1..Len(ids) : ids[k] = label})

\* Component.getTotalBRTo(T, comp): lines 106-119.
getTotalBRTo(i, j) ==
  IF i = j THEN 0
  ELSE SumOver([d \in 1..Len(getBRs(i)) |->
                  count(getBRs(i)[d].fstateIDs, j) * getBRs(i)[d].br],
               1..Len(getBRs(i)))

\* A variant of getCOSIGV without the test for the species itself.
getCOSIGVAny(i, j) == 1

\* Caller-supplied rates (Component.__init__ arguments), at any temperature.
masses(i) == i + 1
sigmaV(i) == 1
getCOSIGV(i, j) == IF i = j THEN 0 ELSE 1
getSIGVBSM(i, j) == IF i = j THEN 0 ELSE 1
getConvertionRate(i, j) == IF i = j THEN 0 ELSE 1

\* Component.nEQ and Component.rEQ of a thermal species, in the vector
\* field's units.
neqAt(i, Temp) == 2 * Temp
rEQAt(i, Temp) == masses(i) + 3 * Temp

\* rhs line 219.
rhsT(c) == getTemperature(c.x, c.y.NS, c.normS)

\* rhs line 232.
rhsCoupled(c, i) == c.Tdecouple[i] = 0

\* rhs lines 223-236: the densities rhs works with, species forced onto the
\* equilibrium curve taking their equilibrium values.
rhsN(c, i) ==
  IF rhsCoupled(c, i) THEN neqAt(i, rhsT(c)) ELSE c.norm[i] * Exp(c.y.Ni[i])
rhsRi(c, i) == IF rhsCoupled(c, i) THEN rEQAt(i, rhsT(c)) ELSE c.y.Ri[i]
rhsRho(c, i) ==
  IF rhsCoupled(c, i) THEN neqAt(i, rhsT(c)) * rEQAt(i, rhsT(c))
  ELSE c.norm[i] * Exp(c.y.Ni[i]) * c.y.Ri[i]

\* rhs lines 233-234: y as rhs leaves it (Ni and Ri are views of y).
yAfter(c) ==
  [ Ni |-> [i \in Comps |-> IF rhsCoupled(c, i)
                            THEN ILog(neqAt(i, rhsT(c)) \div c.norm[i])
                            ELSE c.y.Ni[i]],
    Ri |-> [i \in Comps |-> rhsRi(c, i)],
    NS |-> c.y.NS ]

\* rhs lines 241-242; Component.rNeq is 1 for the species itself and
\* nEQ_self/nEQ_other otherwise.
rNeq(c, i, j) ==
  IF c.active[i] /\ c.active[j]
  THEN (IF i = j THEN 1 ELSE neqAt(i, rhsT(c)) \div neqAt(j, rhsT(c)))
  ELSE 0

\* A variant of Hfunc that sums the energy density of every species.
HfuncAll(c) ==
  ISqrt(rhsT(c) * rhsT(c) * rhsT(c) * rhsT(c)
        + SumOver([i \in Comps |-> rhsRho(c, i)], Comps))

\* AuxFuncs.Hfunc(T, rho, isActive): lines 243-257, in units with
\* 8 pi/(3 MP^2) = 1 and (pi^2/30) gSTAR = 1.
Hfunc(c) ==
  LET rhoRad == rhsT(c) * rhsT(c) * rhsT(c) * rhsT(c)
      rhoTot == rhoRad + SumOver([i \in Comps |-> rhsRho(c, i)],
                                 {i \in Comps : c.active[i]})
  IN  ISqrt(rhoTot)

\* Product over the final state of one decay, Component.getNXTh lines 148-151.
RECURSIVE nprodX(_, _, _, _)
nprodX(c, i, ids, k) ==
  IF k > Len(ids) THEN 1
  ELSE IF ids[k] \in Comps
       THEN (rNeq(c, i, ids[k]) * rhsN(c, ids[k]) * 1 * nprodX(c, i, ids, k + 1))
              \div neqAt(i, rhsT(c))
       ELSE nprodX(c, i, ids, k + 1)

\* Component.getNXTh: lines 122-156.
getNXTh(c, i) ==
  IF neqAt(i, rhsT(c)) = 0 THEN 0
  ELSE neqAt(i, rhsT(c)) *
       SumOver([d \in 1..Len(getBRs(i)) |->
                  IF getBRs(i)[d].br = 0 THEN 0
                  ELSE nprodX(c, i, getBRs(i)[d].fstateIDs, 1)],
               1..Len(getBRs(i)))

\* Product over the final state of one decay, Component.getNXYTh lines 193-196.
RECURSIVE nprodXY(_, _, _, _)
nprodXY(c, b, ids, k) ==
  IF k > Len(ids) THEN 1
  ELSE IF ids[k] \in Comps
       THEN rNeq(c, b, ids[k]) * rhsN(c, ids[k]) * neqAt(b, rhsT(c)) * 1
              * nprodXY(c, b, ids, k + 1)
       ELSE nprodXY(c, b, ids, k + 1)

\* Component.getNXYTh of species a with comp = b: lines 158-202.
getNXYTh(c, a, b) ==
  IF getTotalBRTo(b, a) = 0 THEN 0
  ELSE IF neqAt(b, rhsT(c)) = 0 THEN 0
  ELSE (neqAt(b, rhsT(c)) *
        SumOver([d \in 1..Len(getBRs(b)) |->
                   IF getBRs(b)[d].br = 0 \/ count(getBRs(b)[d].fstateIDs, a) = 0
                   THEN 0
                   ELSE nprodXY(c, b, getBRs(b)[d].fstateIDs, 1)
                          * count(getBRs(b)[d].fstateIDs, a)],
                1..Len(getBRs(b)))) \div getTotalBRTo(b, a)

\* rhs lines 258-262 and 291-300: the pair tables, zero on the diagonal and
\* in the column of an inactive species.
NXYth(c, a, b) == IF a # b /\ c.active[b] THEN getNXYTh(c, a, b) ELSE 0
Beff(c, a, b) == IF a # b /\ c.active[b] THEN getTotalBRTo(a, b) ELSE 0
sigVij(c, a, b) == IF a # b /\ c.active[b] THEN getCOSIGV(a, b) ELSE 0
sigVjj(c, a, b) == IF a # b /\ c.active[b] THEN getSIGVBSM(a, b) ELSE 0
cRate(c, a, b) == IF a # b /\ c.active[b] THEN getConvertionRate(a, b) ELSE 0

\* A variant of line 272 without the isActive factor.
dNSAllSpecies(c) ==
  (SumOver([i \in Comps |-> getBRX(i) * c.width[i] * masses(i)
                              * (rhsN(c, i) - getNXTh(c, i))],
           Comps)
     * Exp(3 * c.x - c.y.NS)) \div (Hfunc(c) * rhsT(c) * c.normS)

\* rhs line 272.
dNS(c) ==
  (SumOver([i \in Comps |-> getBRX(i) * c.width[i] * masses(i)
                              * (rhsN(c, i) - getNXTh(c, i))],
           {i \in Comps : c.active[i]})
     * Exp(3 * c.x - c.y.NS)) \div (Hfunc(c) * rhsT(c) * c.normS)

\* rhs line 303: what parent j adds to the number-density equation of i.
injection(c, j, i) ==
  (Beff(c, j, i) * masses(j) * c.width[j] * rhsN(c, j)
     - Beff(c, j, i) * masses(j) * c.width[j] * NXYth(c, j, i))
    \div (rhsRi(c, j) * Hfunc(c))

\* rhs lines 291-301: what partner j adds to the number-density equation of
\* i by co-annihilation, scattering and conversion.
pairTerms(c, j, i) ==
  LET H == Hfunc(c)
      nn(k) == rhsN(c, k)
      ne(k) == neqAt(k, rhsT(c))
  IN  (sigVij(c, i, j) * (ne(i) * ne(j) - nn(i) * nn(j))) \div H
      + (rNeq(c, i, j) * rNeq(c, i, j) * nn(j) * nn(j) * sigVjj(c, i, j)
           - nn(i) * nn(i) * sigVjj(c, i, j)) \div H
      + (rNeq(c, i, j) * nn(j) * cRate(c, i, j) - nn(i) * cRate(c, i, j)) \div H

\* rhs lines 283-303: the right-hand side of species i before the division by n.
RHSn(c, i) ==
  LET H == Hfunc(c)
      nn == rhsN(c, i)
      ne == neqAt(i, rhsT(c))
  IN  0 - 3 * nn
      - (c.width[i] * masses(i) * nn) \div (H * rhsRi(c, i))
      + (c.width[i] * masses(i) * getNXTh(c, i)) \div (H * rhsRi(c, i))
      + (sigmaV(i) * (ne - nn) * (ne + nn)) \div H
      + SumOver([j \in Comps |-> pairTerms(c, j, i) + injection(c, j, i)], Comps)

\* rhs lines 309-311.
dN(c, i) ==
  IF rhsCoupled(c, i) THEN ((dNS(c) - 3) * rhsRi(c, i)) \div (3 * rhsT(c))
  ELSE IF c.active[i] THEN RHSn(c, i) \div rhsN(c, i)
  ELSE 0

\* AuxFuncs.getPressure: lines 301-315, the blend cut after its second-order
\* coefficient.
getPressure(m, rho, n) ==
  LET Rr == rho \div n
      Prel == (n * Rr) \div 3
      Pnonrel == n * ((2 * (Rr - m)) \div 3
                      - (346 * (Rr - m) * (Rr - m)) \div (1000 * m))
  IN  IF 10 * Rr > 115 * m THEN Prel
      ELSE IF Rr <= m THEN 0
      ELSE IF Prel < Pnonrel THEN Prel ELSE Pnonrel

\* rhs lines 316-329: the right-hand side of rho_i/n_i before the division by n.
RHSr(c, i) ==
  IF ~c.active[i] THEN 0
  ELSE 0 - 3 * getPressure(masses(i), rhsRho(c, i), rhsN(c, i))
       + SumOver([j \in Comps |->
                    (c.width[j] * Beff(c, j, i) * masses(j)
                       * (rhsRi(c, j) - 2 * rhsRi(c, i))
                       * (rhsN(c, j) - NXYth(c, j, i)))
                      \div (2 * rhsRi(c, j) * Hfunc(c))],
                 {j \in Comps : c.active[j] /\ j # i})

\* The value the name `mass` holds after the loop of lines 316-329: the mass
\* of the last active species.
massAfterLoop(c) ==
  masses(CHOOSE i \in Comps : c.active[i] /\ \A j \in Comps : c.active[j] => j <= i)

\* rhs lines 331-333.
dR(c, i) ==
  IF rhsCoupled(c, i)
  THEN ((dNS(c) - 3)
          * ((massAfterLoop(c) * massAfterLoop(c) - rhsRi(c, i) * rhsRi(c, i))
               \div rhsT(c) + 3 * rhsRi(c, i) + 3 * rhsT(c))) \div 3
  ELSE IF c.active[i] THEN RHSr(c, i) \div rhsN(c, i)
  ELSE 0

\* A variant of rhs that also switches off the species it does not clamp.
afterRhsSwitching(c) ==
  [c EXCEPT !.y = yAfter(c),
            !.active = [i \in Comps |-> c.active[i] /\ rhsCoupled(c, i)]]

\* The fields and arguments as rhs leaves them: its only assignments to
\* anything but local names are those of lines 233-234, to y.
afterRhs(c) == [c EXCEPT !.y = yAfter(c)]

\* fSuppressed(x, y, icomp): BoltzSolution.__init__ lines 40-44.
fSuppressed(c, i) == IF c.active[i] THEN c.y.Ni[i] + 100 ELSE 1

\* BoltzSolution.checkThermalEQ(x, y, icomp): lines 341-420, with both
\* forces multiplied by H; n and rho are taken from y as it is.
checkThermalEQ(c, i, thermalEQ) ==
  IF ~thermalEQ \/ ~c.active[i] THEN 1
  ELSE
    LET abs(v) == IF v < 0 THEN 0 - v ELSE v
        Temp == rhsT(c)
        n == [j \in Comps |-> c.norm[j] * Exp(c.y.Ni[j])]
        neq == [j \in Comps |-> neqAt(j, Temp)]
        H == ISqrt(Temp * Temp * Temp * Temp
                   + SumOver([j \in Comps |-> n[j] * c.y.Ri[j]],
                             {j \in Comps : c.active[j]}))
        q == [j \in Comps |-> n[j] \div neq[j]]
        Feq == 2 * sigmaV(i) * neq[i]
               + SumOver([j \in Comps |->
                            sigVij(c, i, j) * neq[j]
                            + neq[i] * (1 + q[j] * q[j]) * sigVjj(c, i, j)
                            + q[j] * cRate(c, i, j)], Comps)
        Ft == SumOver([j \in Comps |->
                         sigVij(c, i, j) * (neq[j] - n[j])
                         + neq[i] * (q[j] * q[j] - 1) * sigVjj(c, i, j)
                         + (q[j] - 1) * cRate(c, i, j)], Comps)
    IN  (1000 * (abs(Ft) + 3 * H)) \div abs(Feq) - 1

\* rhs(x, y): the dy returned.
rhs(c) ==
  [ dN |-> [i \in Comps |-> dN(c, i)],
    dR |-> [i \in Comps |-> dR(c, i)],
    dNS |-> dNS(c) ]

\* Values the integrator hands over as Ni and Ri entries of y.
NiValues == {0, 1}
RiValues == {2, 4}
\* Width of a species that has a decay channel.
Widths == {0, 8}

\* The calls: every choice of active and decoupled species (at least one
\* active: EvolveTo integrates only then), widths, x and y.
Calls ==
  { [called |-> TRUE, active |-> a, Tdecouple |-> td,
     norm |-> [i \in Comps |-> 1], normS |-> 6, width |-> w, x |-> xx,
     y |-> [Ni |-> ni, Ri |-> ri, NS |-> 0]] :
      a \in {f \in [Comps -> BOOLEAN] : \E i \in Comps : f[i]},
      td \in [Comps -> {0, TRH}],
      w \in {f \in [Comps -> Widths] : \A i \in Comps : getBRs(i) = << >> => f[i] = 0},
      xx \in {0},
      ni \in [Comps -> NiValues],
      ri \in [Comps -> RiValues] }

InitRhs ==
  /\ kind = [i \in Comps |-> "strong"]
  /\ components = [i \in Comps |-> NewComponent(kind[i])]
  /\ events = << >>
  /\ x = << >> /\ T = << >> /\ S = << >> /\ R = << >>
  /\ y0 = << >> /\ norm = << >> /\ normS = 0
  /\ frame = [x0 |-> 0, xf |-> 0, TF |-> 0, npoints |-> 0, atol |-> 0, rtol |-> 0]
  /\ r = NoResult
  /\ phase = "rhs"
  /\ depth = 0
  /\ ret = "none"
  /\ solved = "none"
  /\ segs = 0
  /\ failed = FALSE
  /\ evFired = NoFiring
  /\ rhsIn \in Calls
  /\ rhsOut = NoCall
  /\ eqs = NoProblem
  /\ evOut = NoCall
  /\ dyOut = NoCall
  /\ made = NoCall
  /\ post = NoPost


\* The integrator calls rhs(x, y).
RhsCall ==
  /\ rhsIn.called
  /\ rhsOut' = [called |-> TRUE, in |-> rhsIn, H |-> Hfunc(rhsIn),
                dy |-> rhs(rhsIn)]
  /\ rhsIn' = afterRhs(rhsIn)
  /\ evOut' = NoCall
  /\ UNCHANGED <<driverVars, eqs, dyOut, made, post>>

\* The integrator evaluates event function k of self.events (fSuppressed of
\* species k/2 + 1 for even k, fEquilibrium for odd k); thermalEQ is the flag
\* of that species.
EventCall(k, thermalEQ) ==
  /\ rhsIn.called
  /\ evOut' = [called |-> TRUE, event |-> k,
               value |-> IF k % 2 = 0 THEN fSuppressed(rhsIn, k \div 2 + 1)
                         ELSE checkThermalEQ(rhsIn, k \div 2 + 1, thermalEQ)]
  /\ rhsOut' = NoCall
  /\ UNCHANGED <<driverVars, rhsIn, eqs, dyOut, made, post>>

\* The integrator moves on: the next call comes with another x and y.
RhsStep(xx, ni, ri) ==
  /\ rhsOut.called
  /\ rhsIn' = [rhsIn EXCEPT !.x = xx, !.y = [Ni |-> ni, Ri |-> ri, NS |-> 0]]
  /\ rhsOut' = NoCall
  /\ UNCHANGED <<driverVars, eqs, evOut, dyOut, made, post>>

NextRhs ==
  \/ RhsCall
  \/ \E k \in EventIds, thermalEQ \in BOOLEAN : EventCall(k, thermalEQ)
  \/ \E xx \in {0, 1}, ni \in [Comps -> NiValues], ri \in [Comps -> RiValues] :
        RhsStep(xx, ni, ri)

SpecRhs == InitRhs /\ [][NextRhs]_vars

\* --------------------------------------------- the BoltzEqs problem class
\* boltzEqs.BoltzEqs gives the equations to an integrator that calls
\* state_events after each step and handle_event when a component of the
\* transition vector has changed sign.  Event index iev in 1..NComp is the
\* oscillation event of species iev, NComp + i the decay event of species i.

\* The attributes a Component has: those Component.__init__ assigns.
ComponentAttrs ==
  {"label", "Type", "active", "dof", "Tdecay", "Tosc", "Tdecouple", "sigmav",
   "coSigmav", "convertionRate", "sigmavBSM", "source", "coherentAmplitude",
   "mass", "decays"}

\* Caller-supplied mass and oscillation amplitude of a species of the
\* problem, as logarithms.
eqsMass(i) == 4
amplitude(i, Temp) == 2 * Temp + 1

\* Component.getOscAmplitute: lines 316-321.  It reads the attribute
\* coherentAmplitute.
getOscAmplitute(e, i, Temp) ==
  IF e.Type[i] # "CO" THEN [k |-> "None"]
  ELSE IF "coherentAmplitute" \in ComponentAttrs
       THEN [k |-> "value", v |-> amplitude(i, Temp)]
       ELSE [k |-> "AttributeError"]

\* BoltzEqs.state_events lines 183-191: whether component iev of the
\* transition vector is anything but the constant 1.
transitions(e, iev) ==
  IF iev <= NComp THEN e.Type[iev] = "CO"
  ELSE e.width[iev - NComp] # 0 /\ e.sw[iev - NComp]

\* BoltzEqs.handle_event lines 214-236, from event iev on; ret is what the
\* call returns ("None", "False") or the exception that ends it.
RECURSIVE handleFrom(_, _, _, _)
handleFrom(e, info, Temp, iev) ==
  IF iev > 2 * NComp THEN [e EXCEPT !.ret = "None"]
  ELSE IF info[iev] = 0 THEN handleFrom(e, info, Temp, iev + 1)
  ELSE IF iev <= NComp
  THEN IF e.Type[iev] # "CO"
       THEN [e EXCEPT !.ret = IF "ID" \in ComponentAttrs
                               THEN "False" ELSE "AttributeError"]
       ELSE LET e1 == [e EXCEPT !.sw[iev] = TRUE, !.active[iev] = TRUE,
                                !.Tosc[iev] = Temp]
                amp == getOscAmplitute(e1, iev, Temp)
            IN  IF amp.k = "AttributeError"
                THEN [e1 EXCEPT !.ret = "AttributeError"]
                ELSE handleFrom([e1 EXCEPT !.y.N[iev] = amp.v - eqsMass(iev),
                                           !.y.R[iev] = eqsMass(iev)],
                                info, Temp, iev + 1)
  ELSE LET icomp == iev - NComp
       IN  IF e.width[icomp] = 0
           THEN [e EXCEPT !.ret = IF "ID" \in ComponentAttrs
                                   THEN "False" ELSE "AttributeError"]
           ELSE handleFrom([e EXCEPT !.Tdecay[icomp] = Temp, !.sw[icomp] = FALSE],
                           info, Temp, iev + 1)

\* BoltzEqs.handle_event(solver, event_info): lines 205-236.
handle_event(e, info) ==
  handleFrom([e EXCEPT !.info = info], info,
             getTemperature(e.t, e.y.NS, 0), 1)

\* event_info[0]: one entry per component of the transition vector.
EventInfos == [1..(2 * NComp) -> {0, 1}]

\* Times at which the integrator stops, and the entropy variable there.
EqsTimes == {1, 2}
EqsNS == 24

Problems ==
  { [built |-> TRUE, Type |-> ty, width |-> w, sw |-> a, active |-> a,
     Tosc |-> [i \in Comps |-> 0], Tdecay |-> [i \in Comps |-> 0],
     y |-> [N |-> [i \in Comps |-> 0], R |-> [i \in Comps |-> 1], NS |-> EqsNS],
     t |-> 0, ret |-> "none", info |-> [iev \in 1..(2 * NComp) |-> 0]] :
      ty \in [Comps -> {"thermal", "CO"}],
      w \in [Comps -> Widths],
      a \in [Comps -> BOOLEAN] }

InitEqs ==
  /\ kind = [i \in Comps |-> "strong"]
  /\ components = [i \in Comps |-> NewComponent(kind[i])]
  /\ events = << >>
  /\ x = << >> /\ T = << >> /\ S = << >> /\ R = << >>
  /\ y0 = << >> /\ norm = << >> /\ normS = 0
  /\ frame = [x0 |-> 0, xf |-> 0, TF |-> 0, npoints |-> 0, atol |-> 0, rtol |-> 0]
  /\ r = NoResult
  /\ phase = "eqs"
  /\ depth = 0
  /\ ret = "none"
  /\ solved = "none"
  /\ segs = 0
  /\ failed = FALSE
  /\ evFired = NoFiring
  /\ rhsIn = NoCall
  /\ rhsOut = NoCall
  /\ eqs \in Problems
  /\ evOut = NoCall
  /\ dyOut = NoCall
  /\ made = NoCall
  /\ post = NoPost

\* The integrator has stepped to time tt, found that components of the
\* transition vector changed sign, and calls handle_event.
SolverEvent(tt, info) ==
  /\ eqs.built /\ eqs.ret \in {"none", "None"}
  /\ eqs.t < tt
  /\ \E iev \in 1..(2 * NComp) : info[iev] # 0
  /\ \A iev \in 1..(2 * NComp) : info[iev] # 0 => transitions(eqs, iev)
  /\ eqs' = handle_event([eqs EXCEPT !.t = tt], info)
  /\ UNCHANGED <<driverVars, rhsIn, rhsOut, evOut, dyOut, made, post>>

\* handle_event called with an event_info of the caller's making.
HandleEvent(info) ==
  /\ eqs.built /\ eqs.ret \in {"none", "None"}
  /\ eqs' = handle_event(eqs, info)
  /\ UNCHANGED <<driverVars, rhsIn, rhsOut, evOut, dyOut, made, post>>

NextEqs ==
  \/ \E tt \in EqsTimes, info \in EventInfos : SolverEvent(tt, info)
  \/ \E info \in EventInfos : HandleEvent(info)

SpecEqs == InitEqs /\ [][NextEqs]_vars

\* ------------------------------------------- rhs in floating point
\* The last lines of BoltzSolution.rhs on IEEE values: the entropy derivative
\* as computed at line 272, the right-hand sides RHS of lines 283-303 and
\* 316-329 and the densities n, each finite, zero, infinite or NaN, for a
\* call in which every species has decoupled.  AuxFuncs line 24 turns every
\* warning into an exception, numpy's floating-point warnings included.

\* numpy warns when the quotient a/b of two arrays makes an infinity or a NaN
\* out of operands that are neither.
divWarns(a, b) ==
  \/ b.k = "zero" /\ a.k \in {"fin", "zero"}
  \/ a.k = "inf" /\ b.k = "inf"

\* rhs lines 273-275, 307, 330 and 335: the dy returned, or the exception
\* raised.
rhsFloat(c) ==
  IF \E i \in Comps :
        c.active[i] /\ (divWarns(c.RHS[i], c.n[i]) \/ divWarns(c.RHSR[i], c.n[i]))
  THEN [raised |-> TRUE]
  ELSE [ raised |-> FALSE,
         dN |-> [i \in Comps |-> IF c.active[i] THEN LDiv(c.RHS[i], c.n[i]) ELSE Zero],
         dR |-> [i \in Comps |-> IF c.active[i] THEN LDiv(c.RHSR[i], c.n[i]) ELSE Zero],
         dNS |-> IF c.dNS.k = "inf" THEN Fin(709) ELSE c.dNS ]

FloatCalls ==
  { [called |-> FALSE, active |-> a, RHS |-> rn, RHSR |-> rr, n |-> nn, dNS |-> ds] :
      a \in {f \in [Comps -> BOOLEAN] : \E i \in Comps : f[i]},
      rn \in [Comps -> {Fin(0), Zero, Inf, NaN}],
      rr \in [Comps -> {Fin(0), NaN}],
      nn \in [Comps -> {Fin(0), Zero, NaN}],
      ds \in {Fin(0), Zero, Inf, NaN} }

InitFloat ==
  /\ kind = [i \in Comps |-> "strong"]
  /\ components = [i \in Comps |-> NewComponent(kind[i])]
  /\ events = << >>
  /\ x = << >> /\ T = << >> /\ S = << >> /\ R = << >>
  /\ y0 = << >> /\ norm = << >> /\ normS = 0
  /\ frame = [x0 |-> 0, xf |-> 0, TF |-> 0, npoints |-> 0, atol |-> 0, rtol |-> 0]
  /\ r = NoResult
  /\ phase = "float"
  /\ depth = 0
  /\ ret = "none"
  /\ solved = "none"
  /\ segs = 0
  /\ failed = FALSE
  /\ evFired = NoFiring
  /\ rhsIn = NoCall
  /\ rhsOut = NoCall
  /\ eqs = NoProblem
  /\ evOut = NoCall
  /\ dyOut \in FloatCalls
  /\ made = NoCall
  /\ post = NoPost

\* rhs runs to its end on these values.
RhsFloat ==
  /\ phase = "float" /\ ~dyOut.called
  /\ dyOut' = [called |-> TRUE, active |-> dyOut.active, RHS |-> dyOut.RHS,
               RHSR |-> dyOut.RHSR, n |-> dyOut.n, dNS |-> dyOut.dNS,
               dy |-> rhsFloat(dyOut)]
  /\ UNCHANGED <<driverVars, rhsIn, rhsOut, eqs, evOut, made, post>>

SpecFloat == InitFloat /\ [][RhsFloat]_vars

\* ------------------------------------------------- the Component class
\* Component.__init__ with arguments of every sort, and the pairwise
\* accessors of the species made, with itself (species 1) or with another
\* species (species 2) as the partner.

Types == {"thermal", "CO", "weakthermal"}

\* Arguments for Type (a string or not), mass and decays (by Python type).
TypeArgs ==
  { [str |-> TRUE, v |-> t] : t \in Types \cup {"hot", ""} }
    \cup { [str |-> FALSE, v |-> "3"] }
MassArgs == {"int", "float", "function", "str", "NoneType"}
DecaysArgs == {"DecayList", "function", "list"}

\* A variant of __init__ that ends with a bare return after logging.
initReturnsNone(ty, m, dc) == "None"

\* Component.__init__ lines 59-79: the value the method returns.
initReturns(ty, m, dc) ==
  IF ty.v = "" \/ ~ty.str \/ ty.v \notin Types THEN "False"
  ELSE IF m \notin {"function", "int", "float"} THEN "False"
  ELSE IF dc \notin {"function", "DecayList"} THEN "False"
  ELSE "None"

\* Component(label, Type, dof, mass, decays): Python raises TypeError when
\* __init__ returns anything but None, and the caller gets no object.
Component(ty, m, dc) ==
  IF initReturns(ty, m, dc) = "None"
  THEN [obj |-> TRUE, Type |-> ty.v, raised |-> "nothing"]
  ELSE [obj |-> FALSE, Type |-> "", raised |-> "TypeError"]

\* Component.rNeq(T, other) of a species of type ty: lines 264-287; equal
\* masses, so the ratio of two thermal species is taken from nEQ.
rNeqOf(ty, i, j, Temp) ==
  IF ty \notin {"thermal", "weakthermal"} THEN 0
  ELSE IF i = j THEN 1
  ELSE neqAt(i, Temp) \div neqAt(j, Temp)

Accessors == {"getTotalBRTo", "getCOSIGV", "getConvertionRate", "getSIGVBSM", "rNeq"}

InitComp ==
  /\ kind = [i \in Comps |-> "strong"]
  /\ components = [i \in Comps |-> NewComponent(kind[i])]
  /\ events = << >>
  /\ x = << >> /\ T = << >> /\ S = << >> /\ R = << >>
  /\ y0 = << >> /\ norm = << >> /\ normS = 0
  /\ frame = [x0 |-> 0, xf |-> 0, TF |-> 0, npoints |-> 0, atol |-> 0, rtol |-> 0]
  /\ r = NoResult
  /\ phase = "class"
  /\ depth = 0
  /\ ret = "none"
  /\ solved = "none"
  /\ segs = 0
  /\ failed = FALSE
  /\ evFired = NoFiring
  /\ rhsIn = NoCall
  /\ rhsOut = NoCall
  /\ eqs = NoProblem
  /\ evOut = NoCall
  /\ dyOut = NoCall
  /\ made = NoCall
  /\ post = NoPost

\* comp = Component(label, Type, dof, mass, decays)
NewComp(ty, m, dc) ==
  /\ phase = "class" /\ ~made.called
  /\ made' = [called |-> TRUE, op |-> "Component", Type |-> ty, mass |-> m,
              decays |-> dc, result |-> Component(ty, m, dc), other |-> 0, value |-> 0]
  /\ UNCHANGED <<driverVars, rhsIn, rhsOut, eqs, evOut, dyOut, post>>

\* comp.<accessor>(T, other), comp being species 1.
Accessor(name, other) ==
  /\ phase = "class" /\ made.called /\ made.result.obj
  /\ made' = [made EXCEPT
       !.op = name, !.other = other,
       !.value = CASE name = "getTotalBRTo" -> getTotalBRTo(1, other)
                   [] name = "getCOSIGV" -> getCOSIGV(1, other)
                   [] name = "getConvertionRate" -> getConvertionRate(1, other)
                   [] name = "getSIGVBSM" -> getSIGVBSM(1, other)
                   [] OTHER -> rNeqOf(made.result.Type, 1, other, TRH)]
  /\ UNCHANGED <<driverVars, rhsIn, rhsOut, eqs, evOut, dyOut, post>>

NextComp ==
  \/ \E ty \in TypeArgs, m \in MassArgs, dc \in DecaysArgs : NewComp(ty, m, dc)
  \/ \E name \in Accessors, other \in Comps : Accessor(name, other)

SpecComp == InitComp /\ [][NextComp]_vars

\* ------------------------------------------------------------------ claims
IsPrefix(a, b) == Len(a) <= Len(b) /\ \A k \in 1..Len(a) : a[k] = b[k]

\* The step is the end of a segment in which event k fired.
Fires(k) == r'.seg # r.seg /\ k \in r'.fired

\* rhs line 232 and updateSolution line 451: species i is forced onto the
\* equilibrium curve.
coupled(i) == components[i].Tdecouple = 0

\* C1: if any segment of an evolution failed (status < 0), the outermost
\* EvolveTo returns False to its caller.
C1_FailureReported == (phase = "done" /\ failed) => solved = "False"

\* C2: a recorded transition temperature (Tdecouple, Tdecay, Tosc) is never
\* replaced by a different value.
C2_TransitionTempKept ==
  [][\A i \in Comps :
       /\ components[i].Tdecouple # 0
            => components'[i].Tdecouple = components[i].Tdecouple
       /\ components[i].Tdecay # 0
            => components'[i].Tdecay = components[i].Tdecay
       /\ components[i].Tosc # 0
            => components'[i].Tosc = components[i].Tosc]_vars

\* A call as it would be with other values in the state entries of species j.
withEntries(c, j, ni, ri) ==
  [c EXCEPT !.y.Ni[j] = ni, !.y.Ri[j] = ri]

\* C3: once species j is inactive (here: inactive and decoupled), what rhs
\* returns for every other species i, dN_i and dR_i, is the same whatever
\* the entries of j in y hold, and each term of i's equations that involves
\* j (decay injection and inverse injection, co-annihilation, scattering,
\* conversion) is exactly zero.
C3_InactiveContributesNothing ==
  rhsOut.called =>
    \A j \in Comps : \A i \in Comps \ {j} :
      (~rhsOut.in.active[j] /\ rhsOut.in.Tdecouple[j] # 0) =>
        /\ injection(rhsOut.in, j, i) = 0
        /\ pairTerms(rhsOut.in, j, i) = 0
        /\ \A ni \in NiValues, ri \in RiValues :
             /\ dN(withEntries(rhsOut.in, j, ni, ri), i) = rhsOut.dy.dN[i]
             /\ dR(withEntries(rhsOut.in, j, ni, ri), i) = rhsOut.dy.dR[i]

\* C4: one evolution starts at most 2*NComp integration segments (each of the
\* two events of a species fires at most once, and the firing that deactivates
\* the last species starts no segment).
C4_SegmentsBounded == segs <= 2 * NComp

C4_Witness == phase = "done" /\ segs = 2 * NComp

\* C5: the segment started after a firing begins at the event point, and the
\* transition temperature recorded is the temperature at the event point.
C5_RestartAtEventPoint ==
  (phase = "integrating" /\ evFired.k >= 0) =>
     /\ frame.x0 = evFired.at
     /\ LET c == components[evFired.comp]
        IN  (IF evFired.k % 2 = 1 THEN c.Tdecouple ELSE c.Tdecay) = evFired.temp

\* C6: EvolveTo reports success only when the last segment reached the target
\* with no firing, or when no species can fire an event any more.
C6_SuccessOnlyWhenSettled ==
  (phase = "done" /\ solved = "True") =>
     \/ r.status = 0 /\ r.tend = frame.xf
     \/ \A k \in EventIds : ~canFire(k)

\* C7: the stored x is strictly increasing.
C7_StrictlyIncreasing ==
  \A k \in 1..(Len(x) - 1) : x[k] < x[k + 1]

\* C8: after construction every trajectory sequence (x, T, S, R, each n and
\* rho) keeps its previous contents as a prefix in every step.
C8_AppendOnly ==
  [][phase # "comps" =>
       /\ IsPrefix(x, x') /\ IsPrefix(T, T') /\ IsPrefix(S, S') /\ IsPrefix(R, R')
       /\ \A i \in Comps : /\ IsPrefix(components[i].n, components'[i].n)
                           /\ IsPrefix(components[i].rho, components'[i].rho)]_vars

C8_Witness ==
  /\ segs >= 2 /\ Len(x) >= 4
  /\ \E i \in Comps : Len(components[i].n) = Len(x) /\ ~components[i].active

\* C9: when the decay-completion event of species i fires, i becomes inactive
\* and its Tdecay is the last stored temperature; an inactive species stays
\* inactive for the rest of the evolution and its event does not fire again.
C9_DecayedForGood ==
  [][\A i \in Comps :
       /\ Fires(2 * (i - 1)) =>
            /\ components[i].active /\ components[i].Tdecay = 0
            /\ ~components'[i].active
            /\ components'[i].Tdecay = Last(T')
       /\ (phase # "comps" /\ ~components[i].active) =>
            /\ ~components'[i].active
            /\ components'[i].Tdecay = components[i].Tdecay]_vars

C9_Witness ==
  /\ phase = "integrating"
  /\ evFired.k >= 0
  /\ \E i \in Comps : /\ ~components[i].active /\ components[i].Tdecay # 0
                      /\ evFired.comp # i

\* C10: a species is forced onto the equilibrium curve only while its
\* thermal-equilibrium flag says Coupled.
C10_ClampedOnlyWhileCoupled ==
  phase = "integrating" => \A i \in Comps : coupled(i) => components[i].thermalEQ

\* The step is a handle_event call in which only event iev is set.
OnlyEvent(iev) ==
  /\ eqs'.info # eqs.info \/ eqs'.ret # eqs.ret
  /\ eqs'.info[iev] # 0
  /\ \A other \in 1..(2 * NComp) : other # iev => eqs'.info[other] = 0

\* C11: handle_event called for the oscillation event of a CO species makes
\* the species active, records Tosc = T and sets its state to
\* log(amplitude(T)/mass) and mass; called for the oscillation event of any
\* other species it leaves every species and solver field as it was; and
\* state_events lets the oscillation event fire for CO species only.
C11_OscillationOnset ==
  [][\A i \in Comps :
       OnlyEvent(i) =>
         LET Temp == getTemperature(eqs'.t, eqs.y.NS, 0)
         IN  IF eqs.Type[i] = "CO"
             THEN /\ eqs'.sw[i] /\ eqs'.active[i]
                  /\ eqs'.Tosc[i] = Temp
                  /\ eqs'.y.N[i] = amplitude(i, Temp) - eqsMass(i)
                  /\ eqs'.y.R[i] = eqsMass(i)
             ELSE /\ ~transitions(eqs, i)
                  /\ eqs'.sw = eqs.sw /\ eqs'.active = eqs.active
                  /\ eqs'.Tosc = eqs.Tosc /\ eqs'.Tdecay = eqs.Tdecay
                  /\ eqs'.y = eqs.y]_vars

\* C12: a species whose width is zero never has a decay temperature
\* recorded.
C12_StableNeverDecays ==
  \A i \in Comps : width(i) = 0 => components[i].Tdecay = 0

C14_EvaluationKeepsSpecies ==
  [][((rhsOut'.called /\ ~rhsOut.called) \/ (evOut'.called /\ evOut' # evOut)) =>
       /\ rhsIn'.active = rhsIn.active
       /\ rhsIn'.Tdecouple = rhsIn.Tdecouple
       /\ components' = components]_vars

C14_Witness ==
  /\ rhsOut.called
  /\ rhsIn.y # rhsOut.in.y
  /\ rhsIn.active = rhsOut.in.active
  /\ rhsIn.Tdecouple = rhsOut.in.Tdecouple

\* C15: rhs raises nothing and returns finite values only, a component
\* that came out infinite or NaN being returned as zero.
C15_NonFiniteReplaced ==
  dyOut.called =>
    /\ ~dyOut.dy.raised
    /\ \A i \in Comps :
         /\ dyOut.dy.dN[i].k \in {"fin", "zero"}
         /\ dyOut.dy.dR[i].k \in {"fin", "zero"}
         /\ (dyOut.active[i] /\ LDiv(dyOut.RHS[i], dyOut.n[i]).k \in {"inf", "nan"})
              => dyOut.dy.dN[i] = Zero
    /\ dyOut.dy.dNS.k \in {"fin", "zero"}
    /\ dyOut.dNS.k \in {"inf", "nan"} => dyOut.dy.dNS = Zero

\* C16: constructing a species with a Type that is not one of the three
\* recognized, or with a mass that is neither a number nor a function, raises
\* an error and yields no object.
C16_BadSpeciesRejected ==
  (made.called /\ (made.Type \notin {[str |-> TRUE, v |-> t] : t \in Types}
                   \/ made.mass \notin {"int", "float", "function"}))
    => (~made.result.obj /\ made.result.raised # "nothing")

C16_Witness ==
  /\ made.called /\ made.Type = [str |-> TRUE, v |-> "hot"] /\ made.mass = "float"
  /\ ~made.result.obj

\* C17 as stated: every pairwise accessor called with the species itself as
\* the partner returns zero.
C17_SelfPairsZero ==
  (made.called /\ made.op \in Accessors /\ made.other = 1) => made.value = 0

\* C17 amended: with the species itself as the partner, getTotalBRTo,
\* getCOSIGV, getConvertionRate and getSIGVBSM return zero, and rNeq returns
\* one for a thermal or weakthermal species and zero for a CO species.
C17_SelfPairs ==
  (made.called /\ made.op \in Accessors /\ made.other = 1) =>
     IF made.op = "rNeq"
     THEN made.value = (IF made.result.Type = "CO" THEN 0 ELSE 1)
     ELSE made.value = 0

C17_Witness ==
  /\ made.called /\ made.op = "rNeq" /\ made.other = 1
  /\ made.result.Type = "thermal" /\ made.value = 1

\* C18: printSummary takes, for a species that has decayed, the densities
\* stored at its decay temperature, an entry written while it was still active
\* and never a filler entry; for every other species it takes the densities at
\* the final time.
C18_DensitiesAtDecay ==
  \A k \in 1..Len(post.ops) :
    (post.ops[k][1] = "printSummary" /\ post.out[k].raised = "nothing") =>
    \A i \in Comps :
      LET c == components[i]
          used == post.out[k].text.comps[i].omega
          idx == summaryIndex(T, c)
      IN  /\ used = [rho |-> c.rho[idx], n |-> c.n[idx], T |-> T[idx]]
          /\ IF c.Tdecay # 0
             THEN used.T = c.Tdecay /\ used.n # NaN
             ELSE /\ used.T = Last(T)
                  /\ (\A j \in 1..(Len(T) - 1) : T[j] # Last(T)) =>
                       used.n = Last(c.n) /\ used.rho = Last(c.rho)

C18_Witness ==
  /\ \E k \in 1..Len(post.ops) :
       post.ops[k][1] = "printSummary" /\ post.out[k].raised = "nothing"
  /\ \E i \in Comps : /\ components[i].Tdecay # 0
                      /\ Last(components[i].n) = NaN
                      /\ summaryIndex(T, components[i]) < Len(T)
  /\ \E j \in Comps : components[j].Tdecay = 0
  /\ \A j \in 1..(Len(T) - 1) : T[j] # Last(T)

\* C19 as stated: printSummary called twice in a row on one solution succeeds
\* both times and writes the same text.
C19_SummaryRepeatable ==
  \A k \in 2..Len(post.ops) :
    (post.ops[k][1] = "printSummary" /\ post.ops[k - 1] = post.ops[k]) =>
      /\ post.out[k - 1].raised = "nothing"
      /\ post.out[k] = post.out[k - 1]

\* C20 as stated: reading back the file printData wrote returns every stored
\* array under its column, with as many rows as were stored.
C20_RoundTrip ==
  (Len(post.ops) > 0 /\ Last(post.ops)[1] = "getDataFrom") =>
    /\ post.raised = "nothing"
    /\ DOMAIN post.dataDict =
         {[col |-> h, comp |-> 0] : h \in {"x", "T", "R", "S"}}
           \cup {[col |-> h, comp |-> i] : h \in {"n", "rho"}, i \in Comps}
    /\ \A i \in Comps :
         /\ post.dataDict[[col |-> "n", comp |-> i]] = components[i].n
         /\ post.dataDict[[col |-> "rho", comp |-> i]] = components[i].rho
    /\ post.dataDict[[col |-> "T", comp |-> 0]] = [k \in 1..Len(T) |-> Fin(T[k])]
    /\ post.dataDict[[col |-> "x", comp |-> 0]] = [k \in 1..Len(x) |-> Fin(x[k])]

\* C21: the energy density under the Hubble rate of an evaluation is the
\* radiation bath's plus that of exactly the species active at the evaluation.
C21_HubbleFromActive ==
  rhsOut.called =>
    LET c == rhsOut.in
        Temp == getTemperature(c.x, c.y.NS, c.normS)
        rho == [i \in Comps |->
                  IF c.Tdecouple[i] = 0 THEN neqAt(i, Temp) * rEQAt(i, Temp)
                  ELSE c.norm[i] * Exp(c.y.Ni[i]) * c.y.Ri[i]]
    IN  rhsOut.H = ISqrt(Temp * Temp * Temp * Temp
                         + SumOver([i \in Comps |-> IF c.active[i] THEN rho[i] ELSE 0],
                                   Comps))

C21_Witness ==
  /\ rhsOut.called
  /\ \E i, j \in Comps : rhsOut.in.active[i] /\ ~rhsOut.in.active[j]
  /\ rhsOut.H # HfuncAll(rhsOut.in)

\* C22 as stated: a species inactive at an evaluation has both derivatives
\* zero, decoupled before or not.
C22_InactiveDoesNotEvolve ==
  rhsOut.called =>
    \A i \in Comps : ~rhsOut.in.active[i] =>
      rhsOut.dy.dN[i] = 0 /\ rhsOut.dy.dR[i] = 0

\* C24 as stated: rhs(x, y) leaves every entry of the caller's y as it was.
C24_StateVectorKept ==
  rhsOut.called => rhsIn.y = rhsOut.in.y

\* C30 as stated: the energy-ratio derivative of a species clamped to the
\* equilibrium curve is the one computed from that species' own mass.
C30_OwnMass ==
  rhsOut.called =>
    \A i \in Comps : rhsOut.in.Tdecouple[i] = 0 =>
      LET c == rhsOut.in
          Temp == getTemperature(c.x, c.y.NS, c.normS)
          Ri == rEQAt(i, Temp)
      IN  rhsOut.dy.dR[i] =
            ((rhsOut.dy.dNS - 3)
               * ((masses(i) * masses(i) - Ri * Ri) \div Temp + 3 * Ri + 3 * Temp))
              \div 3

\* C23: a segment whose integration fails (status < 0) appends nothing to x,
\* T, S, R or any species' n and rho, and changes no species flag and no
\* transition temperature.
C23_FailureKeepsSolution ==
  [][(phase = "integrating" /\ r'.status < 0) =>
       /\ x' = x /\ T' = T /\ S' = S /\ R' = R
       /\ components' = components]_vars

C23_Witness ==
  /\ failed /\ r.status < 0 /\ r.seg >= 2
  /\ Len(x) > 1
  /\ \E i \in Comps : components[i].Tdecay # 0

\* C25 as stated: from construction of the driver to the end of an evolution,
\* a species' thermal-equilibrium flag is set exactly when it has no decouple
\* temperature recorded.
C25_FlagMatchesDecouple ==
  phase \in {"ready", "integrating", "returning", "done"} =>
    \A i \in Comps : components[i].thermalEQ <=> components[i].Tdecouple = 0

\* C26: after construction and after every completed segment, x, T, S, R and
\* every species' n and rho have the same length, so that printData writes
\* the trajectory instead of refusing it.
C26_EqualLengths ==
  phase \in {"ready", "integrating", "returning", "done"} =>
    /\ Len(T) = Len(x) /\ Len(S) = Len(x) /\ Len(R) = Len(x)
    /\ \A i \in Comps : /\ Len(components[i].n) = Len(x)
                        /\ Len(components[i].rho) = Len(x)
    /\ (\E k \in 1..Len(post.ops) : post.ops[k][1] = "printData") =>
         Len(post.file) >= Len(x) + 3

C26_Witness ==
  /\ phase = "done" /\ segs >= 2 /\ Len(x) > 2
  /\ \E i \in Comps : ~components[i].active
  /\ \E i \in Comps : Kinds[kind[i]].preset
  /\ \E k \in 1..Len(post.ops) : post.ops[k][1] = "printData"

\* C27 as stated: at the start of every segment the initial state vector and
\* the normalization constants are finite for every species, a species that
\* decayed in an earlier segment included.
C27_FiniteInitialState ==
  phase = "integrating" =>
    \A i \in Comps :
      /\ y0.Ri[i].k \in {"fin", "zero"}
      /\ norm[i].k \in {"fin", "zero"}

\* C28 as stated: a segment started by an event-triggered restart is
\* integrated with the tolerances of the segment before it, hence with those the
\* caller passed to EvolveTo.
C28_TolerancesKept ==
  [][(phase = "integrating" /\ phase' = "integrating" /\ segs' = segs + 1) =>
       frame'.atol = frame.atol /\ frame'.rtol = frame.rtol]_vars

\* C29: the event list holds two entries per species in species order, the
\* decay-completion event of species i and then its equilibrium-departure
\* event, or two placeholders; and a firing at position k changes the active
\* flag, the thermal-equilibrium flag and the transition temperatures of
\* species floor(k/2) only, which is the species the fired event is bound to.
C29_EventsPerSpecies ==
  [][/\ phase' \in {"ready", "integrating", "returning", "done"} =>
          /\ Len(events') = 2 * NComp
          /\ \A i \in Comps :
               \/ /\ events'[2 * i - 1] = [f |-> "fSuppressed", icomp |-> i]
                  /\ events'[2 * i] = [f |-> "fEquilibrium", icomp |-> i]
               \/ /\ events'[2 * i - 1].f = "placeholder"
                  /\ events'[2 * i].f = "placeholder"
     /\ phase = "integrating" =>
          \A j \in Comps :
            (<<components'[j].active, components'[j].thermalEQ,
               components'[j].Tdecay, components'[j].Tdecouple>>
               # <<components[j].active, components[j].thermalEQ,
                   components[j].Tdecay, components[j].Tdecouple>>) =>
              \E k \in r'.fired : /\ k \div 2 + 1 = j
                                  /\ events[k + 1].icomp = j]_vars

C29_Witness ==
  /\ phase = "integrating" /\ evFired.k >= 0
  /\ Len(events) = 2 * NComp
  /\ \E i \in Comps : events[2 * i].f = "placeholder"
  /\ \E j \in Comps : components[j].Tdecay # 0 \/ components[j].Tdecouple = evFired.temp

====
